---------------------------- MODULE Spec2Model ----------------------------
(* Material classification and endgame-evaluator dispatch of               *)
(* Makruk-Stockfish: src/src/material.cpp (Material::probe, the classifier *)
(* predicates, imbalance) and src/src/endgame.cpp (the Endgames registry   *)
(* and the Endgame<E> evaluators).                                         *)
(*                                                                         *)
(* Piece letters follow the registry codes: M = queen (met), S = bishop    *)
(* (khon), N = knight, R = rook, P = pawn.                                 *)
EXTENDS Integers, Sequences, FiniteSets, TLC

VARIABLES
    materialTable,  \* [worker -> [slot -> Entry]]: Thread::materialTable
    endgames,       \* [worker -> [key -> evaluator]]: Thread::endgames (Value kind)
    generic,        \* the file-scope Endgame<E> instances EvaluateKXK[] ... EvaluateKXKR[]
    pos,            \* the position last handed to probe / the evaluator
    ret,            \* what the last Material::probe call returned
    snap,           \* an earlier return of probe, remembered for comparison
    score           \* the last evaluator results

vars == <<materialTable, endgames, generic, pos, ret, snap, score>>

-----------------------------------------------------------------------------
(* Bounds of the model *)

\* Workers, slots of a material table, men of one side besides its king, and
\* bishops, knights or rooks of one side.
NumWorkers == 2
TableSize == 2
MaxSide == 3
MaxOfficers == 2

-----------------------------------------------------------------------------
(* Vocabulary of types.h (declarations only; values are stand-ins) *)

WHITE == 0
BLACK == 1
Color == {WHITE, BLACK}
Opp(c) == 1 - c

NO_PIECE_TYPE == 0
PAWN == 1
QUEEN == 2
BISHOP == 3
KNIGHT == 4
ROOK == 5
PieceTypes == PAWN..ROOK

VALUE_ZERO == 0
VALUE_DRAW == 0
VALUE_KNOWN_WIN == 10000
VALUE_MATE_IN_MAX_PLY == 31744
PawnValueEg == 213
QueenValueMg == 420
QueenValueEg == 400
BishopValueMg == 660
BishopValueEg == 640
KnightValueMg == 782
RookValueMg == 1289
MidgameLimit == 6000
EndgameLimit == 2000
PHASE_MIDGAME == 128
SCALE_FACTOR_NORMAL == 64

PieceValueMg(pt) ==
    CASE pt = QUEEN  -> QueenValueMg
      [] pt = BISHOP -> BishopValueMg
      [] pt = KNIGHT -> KnightValueMg
      [] pt = ROOK   -> RookValueMg
      [] OTHER       -> 0

Workers == 1..NumWorkers

-----------------------------------------------------------------------------
(* Arithmetic of C++ int *)

Min(a, b) == IF a < b THEN a ELSE b
Max(a, b) == IF a > b THEN a ELSE b

\* A floored quotient: what the division would be were it not truncated.
FloorDiv(a, b) == a \div b

\* C++ integer division truncates toward zero.
CDiv(a, b) == IF a >= 0 THEN a \div b ELSE -((-a) \div b)

\* int16_t(x): the low 16 bits, read as a signed value.
Int16(x) == LET u == x % 65536 IN IF u >= 32768 THEN u - 65536 ELSE u

-----------------------------------------------------------------------------
(* Material: piece counts per color, kings left out (each side has one) *)

SumCounts(cv) == cv[PAWN] + cv[QUEEN] + cv[BISHOP] + cv[KNIGHT] + cv[ROOK]

\* The count vectors of one side that the rules of the game allow, up to MaxSide men.
SideCounts ==
    { cv \in [PieceTypes -> 0..MaxSide] :
        /\ SumCounts(cv) <= MaxSide
        /\ cv[BISHOP] <= MaxOfficers
        /\ cv[KNIGHT] <= MaxOfficers
        /\ cv[ROOK] <= MaxOfficers }

Materials == [Color -> SideCounts]

count(m, c, pt) == m[c][pt]

\* pos.pieces(c) as a number of men: the king and the rest.
pieces_count(m, c) == 1 + SumCounts(m[c])

more_than_one_piece(m, c) == pieces_count(m, c) > 1

non_pawn_material(m, c) ==
      m[c][QUEEN] * PieceValueMg(QUEEN) + m[c][BISHOP] * PieceValueMg(BISHOP)
    + m[c][KNIGHT] * PieceValueMg(KNIGHT) + m[c][ROOK] * PieceValueMg(ROOK)

\* The pair indicator of the imbalance vector: two of a kind.
queen_pair(m, c) == IF m[c][QUEEN] >= 2 THEN 1 ELSE 0

\* The material key: a token that names the composition and nothing else.
\* No composition has key 0, the key of a zeroed Entry.
material_key(m) ==
    1 + m[WHITE][PAWN] + 7 * m[WHITE][QUEEN] + 49 * m[WHITE][BISHOP]
      + 343 * m[WHITE][KNIGHT] + 2401 * m[WHITE][ROOK]
      + 16807 * ( m[BLACK][PAWN] + 7 * m[BLACK][QUEEN] + 49 * m[BLACK][BISHOP]
                + 343 * m[BLACK][KNIGHT] + 2401 * m[BLACK][ROOK] )

Mat(wp, wq, wb, wn, wr, bp, bq, bb, bn, br) ==
    [c \in Color |->
        IF c = WHITE
        THEN [pt \in PieceTypes |->
                CASE pt = PAWN -> wp [] pt = QUEEN -> wq [] pt = BISHOP -> wb
                  [] pt = KNIGHT -> wn [] OTHER -> wr]
        ELSE [pt \in PieceTypes |->
                CASE pt = PAWN -> bp [] pt = QUEEN -> bq [] pt = BISHOP -> bb
                  [] pt = KNIGHT -> bn [] OTHER -> br]]

-----------------------------------------------------------------------------
(* Polynomial material imbalance (material.cpp) *)

QuadraticOurs ==
    << << 1000 >>,
       <<   40,    0 >>,
       <<    0,   69,   -1 >>,
       <<    0,  104,   33, -105 >>,
       <<   32,  255,    2,    4,   -3 >>,
       <<  -26,   -2,   52,  110,   47, -150 >> >>

QuadraticTheirs ==
    << <<    0 >>,
       <<   36,    0 >>,
       <<   40,   50,    0 >>,
       <<   59,   65,   25,    0 >>,
       <<    9,   63,    7,   42,    0 >>,
       <<   46,   39,   -8,  -24,  240,    0 >> >>

\* The tables are indexed from NO_PIECE_TYPE = 0; TLA+ tuples from 1.
Ours(pt1, pt2) == QuadraticOurs[pt1 + 1][pt2 + 1]
Theirs(pt1, pt2) == QuadraticTheirs[pt1 + 1][pt2 + 1]

\* pieceCount[COLOR_NB][PIECE_TYPE_NB] as probe builds it: slot 0 is the pair.
PieceCountOf(m) ==
    [c \in Color |->
        [pt \in NO_PIECE_TYPE..ROOK |->
            IF pt = NO_PIECE_TYPE THEN queen_pair(m, c) ELSE count(m, c, pt)]]

\* The inner loop: pt2 from NO_PIECE_TYPE up to pt1.
RECURSIVE InnerLoop(_, _, _, _, _)
InnerLoop(pc, Us, pt1, pt2, v) ==
    IF pt2 > pt1 THEN v
    ELSE InnerLoop(pc, Us, pt1, pt2 + 1,
                   v + Ours(pt1, pt2) * pc[Us][pt2]
                     + Theirs(pt1, pt2) * pc[Opp(Us)][pt2])

\* The outer loop: pt1 from NO_PIECE_TYPE up to ROOK, skipping absent types.
RECURSIVE OuterLoop(_, _, _, _)
OuterLoop(pc, Us, pt1, bonus) ==
    IF pt1 > ROOK THEN bonus
    ELSE IF pc[Us][pt1] = 0 THEN OuterLoop(pc, Us, pt1 + 1, bonus)
    ELSE OuterLoop(pc, Us, pt1 + 1,
                   bonus + pc[Us][pt1] * InnerLoop(pc, Us, pt1, NO_PIECE_TYPE, 0))

imbalance(pc, Us) == OuterLoop(pc, Us, NO_PIECE_TYPE, 0)

\* e->value = int16_t((imbalance<WHITE> - imbalance<BLACK>) / 16)
ImbalanceValue(m) ==
    LET pc == PieceCountOf(m)
    IN  Int16(CDiv(imbalance(pc, WHITE) - imbalance(pc, BLACK), 16))

-----------------------------------------------------------------------------
(* Game phase (material.cpp) *)

\* A phase mapping without the clamp into [EndgameLimit, MidgameLimit].
PhaseUnclamped(npm_w, npm_b) ==
    CDiv((npm_w + npm_b - EndgameLimit) * PHASE_MIDGAME, MidgameLimit - EndgameLimit)

\* Map total non-pawn material into [PHASE_ENDGAME, PHASE_MIDGAME].
PhaseOf(npm_w, npm_b) ==
    LET npm == Max(EndgameLimit, Min(npm_w + npm_b, MidgameLimit))
    IN  CDiv((npm - EndgameLimit) * PHASE_MIDGAME, MidgameLimit - EndgameLimit)

GamePhase(m) == PhaseOf(non_pawn_material(m, WHITE), non_pawn_material(m, BLACK))

-----------------------------------------------------------------------------
(* Classifier predicates (material.cpp) *)

WinThreshold == BishopValueEg + QueenValueEg

\* A predicate that only asks for a lone enemy king.
is_KXKLoneKingOnly(m, us) == ~more_than_one_piece(m, Opp(us))

is_KXK(m, us) ==
    /\ ~more_than_one_piece(m, Opp(us))
    /\ non_pawn_material(m, us) >= WinThreshold

is_KQsPsK(m, us) ==
    /\ ~more_than_one_piece(m, Opp(us))
    /\ (count(m, us, QUEEN) # 0 \/ count(m, us, PAWN) # 0)
    /\ count(m, us, ROOK) = 0
    /\ count(m, us, BISHOP) = 0
    /\ count(m, us, KNIGHT) = 0

\* A predicate that accepts any number of enemy pawns.
is_KXKPAnyPawns(m, us) ==
    /\ count(m, us, PAWN) = 0
    /\ count(m, Opp(us), PAWN) >= 1
    /\ non_pawn_material(m, us) - non_pawn_material(m, Opp(us)) >= WinThreshold

is_KXKP(m, us) ==
    /\ count(m, us, PAWN) = 0
    /\ count(m, Opp(us), PAWN) = 1
    /\ non_pawn_material(m, us) - non_pawn_material(m, Opp(us)) >= WinThreshold

is_KXKQ(m, us) ==
    /\ count(m, us, PAWN) = 0
    /\ non_pawn_material(m, Opp(us)) = QueenValueMg
    /\ count(m, Opp(us), QUEEN) = 1
    /\ non_pawn_material(m, us) - non_pawn_material(m, Opp(us)) >= WinThreshold

is_KXKB(m, us) ==
    /\ count(m, us, PAWN) = 0
    /\ non_pawn_material(m, Opp(us)) = BishopValueMg
    /\ count(m, Opp(us), BISHOP) = 1
    /\ non_pawn_material(m, us) - non_pawn_material(m, Opp(us)) >= WinThreshold

is_KXKN(m, us) ==
    /\ count(m, us, PAWN) = 0
    /\ non_pawn_material(m, Opp(us)) = KnightValueMg
    /\ count(m, Opp(us), KNIGHT) = 1
    /\ non_pawn_material(m, us) - non_pawn_material(m, Opp(us)) >= WinThreshold

is_KXKR(m, us) ==
    /\ count(m, us, PAWN) = 0
    /\ non_pawn_material(m, Opp(us)) = RookValueMg
    /\ count(m, Opp(us), ROOK) = 1
    /\ non_pawn_material(m, us) - non_pawn_material(m, Opp(us)) >= WinThreshold

\* The families in the order of probe's loops.
Families == <<"KXK", "KQsPsK", "KXKP", "KXKQ", "KXKB", "KXKN", "KXKR">>

\* The loops in the opposite order.
ReversedFamilies == <<"KXKR", "KXKN", "KXKB", "KXKQ", "KXKP", "KQsPsK", "KXK">>

ProbeFamilies == Families

Holds(f, m, us) ==
    CASE f = "KXK"    -> is_KXK(m, us)
      [] f = "KQsPsK" -> is_KQsPsK(m, us)
      [] f = "KXKP"   -> is_KXKP(m, us)
      [] f = "KXKQ"   -> is_KXKQ(m, us)
      [] f = "KXKB"   -> is_KXKB(m, us)
      [] f = "KXKN"   -> is_KXKN(m, us)
      [] f = "KXKR"   -> is_KXKR(m, us)

\* The seven loops "for (Color c = WHITE; c <= BLACK; ++c) if (is_F(pos, c))": the
\* predicates evaluated so far (tried) and the first <<family, color>> that held.
RECURSIVE GenericScan(_, _, _, _)
GenericScan(m, i, c, tried) ==
    IF i > Len(ProbeFamilies) THEN [found |-> FALSE, at |-> <<"none", WHITE>>, tried |-> tried]
    ELSE IF c > BLACK THEN GenericScan(m, i + 1, WHITE, tried)
    ELSE LET t == Append(tried, <<ProbeFamilies[i], c>>)
         IN  IF Holds(ProbeFamilies[i], m, c)
             THEN [found |-> TRUE, at |-> <<ProbeFamilies[i], c>>, tried |-> t]
             ELSE GenericScan(m, i, c + 1, t)

-----------------------------------------------------------------------------
(* The Endgames registry (endgame.cpp) *)

\* A pointer to an evaluator object: its Endgame<E> code, its strongSide, and the
\* worker whose registry owns it (0: a file-scope instance of material.cpp).
NullFn == <<"nullptr", WHITE, 0>>

\* Endgames::Endgames(): add<E>(code) in this order.
RegistryCodes ==
    << <<"KNNK", <<"K", "N", "N", "K">> >>,
       <<"KNK",  <<"K", "N", "K">> >>,
       <<"KBK",  <<"K", "S", "K">> >>,
       <<"KQQK", <<"K", "M", "M", "K">> >>,
       <<"KBQK", <<"K", "S", "M", "K">> >>,
       <<"KNQK", <<"K", "N", "M", "K">> >> >>

LetterOf(pt) ==
    CASE pt = PAWN -> "P" [] pt = QUEEN -> "M" [] pt = BISHOP -> "S"
      [] pt = KNIGHT -> "N" [] pt = ROOK -> "R"

\* Index of the second "K" of a code: where the weak side's men start.
RECURSIVE SecondKing(_, _)
SecondKing(code, i) ==
    IF i > Len(code) THEN Len(code) + 1
    ELSE IF code[i] = "K" THEN i ELSE SecondKing(code, i + 1)

CountLetter(code, from, to, ch) ==
    Cardinality({i \in from..to : i <= Len(code) /\ code[i] = ch})

\* The material of a code with `strong` as the side named first.
MaterialOfCode(code, strong) ==
    LET k == SecondKing(code, 2)
    IN  [c \in Color |->
            [pt \in PieceTypes |->
                IF c = strong THEN CountLetter(code, 2, k - 1, LetterOf(pt))
                ELSE CountLetter(code, k + 1, Len(code), LetterOf(pt))]]

RegistryKeys ==
    { material_key(MaterialOfCode(RegistryCodes[i][2], c)) :
        i \in 1..Len(RegistryCodes), c \in Color }

\* The map<Value> a worker's Endgames object holds after construction.
BuildRegistry(w) ==
    [k \in RegistryKeys |->
        LET hit == CHOOSE ic \in (1..Len(RegistryCodes)) \X Color :
                      material_key(MaterialOfCode(RegistryCodes[ic[1]][2], ic[2])) = k
        IN  <<RegistryCodes[hit[1]][1], hit[2], w>>]

\* No ScaleFactor evaluator is added by Endgames::Endgames().
BuildScaleRegistry(w) == [k \in {} |-> NullFn]

\* endgames.probe<Value>(key) / endgames.probe<ScaleFactor>(key)
EndgamesProbe(map, key) == IF key \in DOMAIN map THEN map[key] ELSE NullFn

\* The file-scope instances Endgame<E> EvaluateE[] = { Endgame<E>(WHITE), Endgame<E>(BLACK) }:
\* the strongSide each was constructed with.
BuildGeneric ==
    [f \in {Families[i] : i \in 1..Len(Families)} |->
        [c \in Color |-> c]]

-----------------------------------------------------------------------------
(* Material::probe (material.cpp) *)

ZeroEntry ==
    [ key |-> 0, value |-> 0, gamePhase |-> 0,
      factor |-> [c \in Color |-> 0],
      evaluationFunction |-> NullFn,
      scalingFunction |-> [c \in Color |-> NullFn] ]

\* HashTable::operator[]: the slot a key maps to.
TableIndex(key) == key % TableSize

\* A table shared by all workers instead of one per worker.
SharedTable(w) == 1

\* pos.this_thread()->materialTable: the table of the probing worker.
ThisThreadTable(w) == w

\* A hit test that trusts any slot already written.
SlotInUse(e, key) == e.key # 0

\* if (e->key == key) return e;
KeyMatches(e, key) == e.key = key

\* A probe that runs the classifier before the registry.
GenericFirst(regFn, scan) ==
    IF scan.found THEN [fn |-> <<scan.at[1], scan.at[2], 0>>, tried |-> scan.tried]
    ELSE [fn |-> regFn, tried |-> scan.tried]

\* Registry first, then the classifier loops: the Value-kind evaluator attached
\* and the classifier predicates that were evaluated on the way.
SelectEvaluation(regFn, scan) ==
    IF regFn # NullFn THEN [fn |-> regFn, tried |-> <<>>]
    ELSE IF scan.found THEN [fn |-> <<scan.at[1], scan.at[2], 0>>, tried |-> scan.tried]
    ELSE [fn |-> NullFn, tried |-> scan.tried]

\* A miss path that falls through to the imbalance whatever was attached.
NeverReturnsEarly(evalFn, sfFn) == FALSE

\* A miss path that returns early for a scaling function only.
ReturnsOnScalingOnly(evalFn, sfFn) == sfFn # NullFn

\* The "return e" statements before the imbalance: taken once an evaluation
\* function or a scaling function is attached.
ReturnsEarly(evalFn, sfFn) == evalFn # NullFn \/ sfFn # NullFn

\* A miss path that overwrites the slot without clearing it first.
KeepEntry(e) == e

\* std::memset(e, 0, sizeof(Entry))
ClearEntry(e) == ZeroEntry

\* The tail of the miss path once the Value-kind lookups are done: the scaling
\* lookup (skipped by the early returns) and the imbalance.
FinishMiss(w, m, e1, sel) ==
    LET key == e1.key
        e2  == [e1 EXCEPT !.evaluationFunction = sel.fn]
        sf  == IF sel.fn # NullFn THEN NullFn
               ELSE EndgamesProbe(endgames[w].scale, key)
        e3  == IF sf # NullFn
               THEN [e2 EXCEPT !.scalingFunction[sf[2]] = sf]
               ELSE e2
    IN  [entry |-> IF ReturnsEarly(sel.fn, sf) THEN e3
                   ELSE [e3 EXCEPT !.value = ImbalanceValue(m)],
         tried |-> sel.tried]

\* The miss path of probe, on worker w's registry and the slot's old content e:
\* the Entry written to the slot.
ProbeMiss(w, m, e) ==
    LET key == material_key(m)
        e0  == [ClearEntry(e) EXCEPT !.key = key,
                                     !.factor = [c \in Color |-> SCALE_FACTOR_NORMAL]]
        e1  == [e0 EXCEPT !.gamePhase = GamePhase(m)]
    IN  CHOOSE r \in { FinishMiss(w, m, e1,
                          CHOOSE sel \in { SelectEvaluation(
                                              EndgamesProbe(endgames[w].value, key),
                                              GenericScan(m, 1, WHITE, <<>>)) } : TRUE) } : TRUE

NoPlacement == [none |-> TRUE]

NoRet == [valid |-> FALSE, worker |-> 0, slot |-> 0, hit |-> FALSE, old |-> 0,
          entry |-> ZeroEntry, tried |-> <<>>]

NoSnap == [valid |-> FALSE, worker |-> 0, key |-> 0, entry |-> ZeroEntry]

NoScore == [evals |-> <<>>, mirrored |-> FALSE]

\* Entry* probe(const Position& pos), called by worker w on a position of material m.
ProbeCall(w, m) ==
    LET key  == material_key(m)
        t    == ThisThreadTable(w)
        slot == TableIndex(key)
        e    == materialTable[t][slot]
        hit  == KeyMatches(e, key)
    IN  \E r \in { IF hit THEN [entry |-> e, tried |-> <<>>] ELSE ProbeMiss(w, m, e) } :
            /\ materialTable' = [materialTable EXCEPT ![t][slot] = r.entry]
            /\ ret' = [valid |-> TRUE, worker |-> w, slot |-> slot, hit |-> hit,
                       old |-> e.key, entry |-> r.entry, tried |-> r.tried]
            /\ UNCHANGED <<endgames, generic>>

-----------------------------------------------------------------------------
(* Squares and geometry (types.h, bitboard.h) *)

SQ_A1 == 0
SQ_H1 == 7
SQ_A8 == 56
SQ_H8 == 63
SQ_NONE == 64

file_of(s) == s % 8
rank_of(s) == s \div 8

\* ~Square: the vertical flip, s ^ SQ_A8.
FlipSq(s) == IF s = SQ_NONE THEN SQ_NONE ELSE (7 - rank_of(s)) * 8 + file_of(s)

Abs(x) == IF x < 0 THEN -x ELSE x

\* distance(s1, s2): the number of king steps between two squares of the board.
distance(s1, s2) ==
    Max(Abs(file_of(s1) - file_of(s2)), Abs(rank_of(s1) - rank_of(s2)))

\* opposite_colors(s1, s2): ((s >> 3) ^ s) & 1 with s = s1 ^ s2; for SQ_NONE = 64
\* the bits tested are those of A1.
opposite_colors(s1, s2) ==
    (rank_of(s1) + file_of(s1) + rank_of(s2) + file_of(s2)) % 2 = 1

\* DarkSquares holds A1.
IsDark(s) == (rank_of(s) + file_of(s)) % 2 = 0

\* attacks_from<KING>(s), attacks_from<KNIGHT>(s)
KingAttacks(s) ==
    { r * 8 + f : f \in (file_of(s) - 1)..(file_of(s) + 1),
                  r \in (rank_of(s) - 1)..(rank_of(s) + 1) }
    \cap { t \in 0..63 : t # s /\ distance(s, t) = 1 }

KnightAttacks(s) ==
    { t \in 0..63 :
        LET df == Abs(file_of(s) - file_of(t))
            dr == Abs(rank_of(s) - rank_of(t))
        IN  (df = 1 /\ dr = 2) \/ (df = 2 /\ dr = 1) }

-----------------------------------------------------------------------------
(* Tables of endgame.cpp, indexed from square A1 = 0 (TLA+ tuples from 1) *)

PushToEdges ==
    << 100,  90,  80,  70,  70,  80,  90, 100,
        90,  70,  60,  50,  50,  60,  70,  90,
        80,  60,  40,  30,  30,  40,  60,  80,
        70,  50,  30,  20,  20,  30,  50,  70,
        70,  50,  30,  20,  20,  30,  50,  70,
        80,  60,  40,  30,  30,  40,  60,  80,
        90,  70,  60,  50,  50,  60,  70,  90,
       100,  90,  80,  70,  70,  80,  90, 100 >>

PushToOpposingSideEdges ==
    <<  30,   5,   3,   0,   0,   3,   5,  30,
        40,  20,   5,   0,   0,   5,  20,  40,
        50,  30,  10,   3,   3,  10,  30,  50,
        60,  40,  20,   7,   7,  20,  40,  60,
        70,  50,  30,  20,  20,  30,  50,  70,
        80,  60,  40,  30,  30,  40,  60,  80,
        90,  70,  60,  50,  50,  60,  70,  90,
       100,  90,  80,  70,  70,  80,  90, 100 >>

PushToQueenCorners ==
    << 100,  90,  80,  70,  50,  30,   0,   0,
        90,  70,  60,  50,  30,  10,   0,   0,
        80,  60,  40,  30,  10,   0,  10,  30,
        70,  50,  30,  10,   0,  10,  30,  50,
        50,  30,  10,   0,  10,  30,  50,  70,
        30,  10,   0,  10,  30,  40,  60,  80,
         0,   0,  10,  30,  50,  60,  70,  90,
         0,   0,  30,  50,  70,  80,  90, 100 >>

KingCorners ==
    <<   1,   1,   1,   0,   0,   2,   2,   2,
         1,   1,   1,   0,   0,   2,   2,   2,
         1,   1,   1,   0,   0,   2,   2,   2,
         0,   0,   0,   0,   0,   0,   0,   0,
         0,   0,   0,   0,   0,   0,   0,   0,
         3,   3,   3,   0,   0,   4,   4,   4,
         3,   3,   3,   0,   0,   4,   4,   4,
         3,   3,   3,   0,   0,   4,   4,   4 >>

PushToCorners ==
    << 200, 190, 180, 170, 160, 150, 140, 130,
       190, 180, 170, 160, 150, 140, 130, 140,
       180, 170, 155, 140, 140, 125, 140, 150,
       170, 160, 140, 120, 110, 140, 150, 160,
       160, 150, 140, 110, 120, 140, 160, 170,
       150, 140, 125, 140, 140, 155, 170, 180,
       140, 130, 140, 150, 160, 170, 180, 190,
       130, 140, 150, 160, 170, 180, 190, 200 >>

PushClose == << 0, 0, 100, 80, 60, 40, 20, 10 >>

PushAway == << 0, 5, 20, 40, 60, 80, 90, 100 >>

PushWin == << 0, 120, 100, 80, 60, 40, 20, 10 >>

At(table, i) == table[i + 1]

-----------------------------------------------------------------------------
(* What an evaluator reads of a Position *)

side_to_move(p) == p.pl.stm
king_square(p, c) == p.pl.ksq[c]

\* square<PT>(c): pieceList[make_piece(c, PT)][0], SQ_NONE when c has no such piece.
queen_square(p, c) == IF p.pl.queens[c] = <<>> THEN SQ_NONE ELSE p.pl.queens[c][1]
bishop_square(p, c) == p.pl.bishop[c]
knight_square(p, c) == p.pl.knight[c]

\* DarkSquares & pos.pieces(c, QUEEN), ~DarkSquares & pos.pieces(c, QUEEN)
dark_queens(p, c) == \E i \in 1..Len(p.pl.queens[c]) : IsDark(p.pl.queens[c][i])
light_queens(p, c) == \E i \in 1..Len(p.pl.queens[c]) : ~IsDark(p.pl.queens[c][i])

\* !MoveList<LEGAL>(pos).size()
no_legal_moves(p) == p.pl.noLegal

-----------------------------------------------------------------------------
(* The evaluators (endgame.cpp) *)

\* Stalemate detection with lone king.
LoneKingStalemate(p, weakSide) == side_to_move(p) = weakSide /\ no_legal_moves(p)

\* The material combinations for which the score is lifted to a known win.
KXKForcedMate(p, strongSide) ==
    LET R == count(p.m, strongSide, ROOK)
        N == count(p.m, strongSide, KNIGHT)
        B == count(p.m, strongSide, BISHOP)
        Q == count(p.m, strongSide, QUEEN)
    IN  \/ R >= 1
        \/ (R >= 1 /\ N >= 1 /\ B >= 1 /\ Q >= 1)
        \/ (R >= 1 /\ N >= 1 /\ B >= 1)
        \/ (R >= 1 /\ N >= 1 /\ Q >= 1)
        \/ (R >= 1 /\ B >= 1 /\ Q >= 1)
        \/ (R >= 1 /\ N >= 1)
        \/ (R >= 1 /\ B >= 1)
        \/ (R >= 1 /\ Q >= 1)
        \/ (B >= 1 /\ N >= 1 /\ Q >= 1)
        \/ (B >= 1 /\ N >= 1)
        \/ B = 2
        \/ (B >= 1 /\ Q >= 1)
        \/ (N = 1 /\ Q >= 2)
        \/ (N = 2 /\ Q >= 1)
        \/ (Q >= 3 /\ dark_queens(p, strongSide) /\ light_queens(p, strongSide))

\* return strongSide == pos.side_to_move() ? result : -result;
SignedResult(p, strongSide, result) ==
    IF strongSide = side_to_move(p) THEN result ELSE -result

\* A test that asks for both colors to be missing.
QueensCannotMateBoth(p, strongSide) ==
    /\ count(p.m, strongSide, QUEEN) >= 3
    /\ count(p.m, strongSide, ROOK) = 0
    /\ count(p.m, strongSide, KNIGHT) = 0
    /\ count(p.m, strongSide, BISHOP) = 0
    /\ (~dark_queens(p, strongSide) /\ ~light_queens(p, strongSide))

\* Three or more queens and nothing else, on squares of one color.
QueensCannotMate(p, strongSide) ==
    /\ count(p.m, strongSide, QUEEN) >= 3
    /\ count(p.m, strongSide, ROOK) = 0
    /\ count(p.m, strongSide, KNIGHT) = 0
    /\ count(p.m, strongSide, BISHOP) = 0
    /\ (~dark_queens(p, strongSide) \/ ~light_queens(p, strongSide))

\* Endgame<KXK>::operator()
EndgameKXK(p, strongSide) ==
    LET weakSide  == Opp(strongSide)
        winnerKSq == king_square(p, strongSide)
        bishopSq  == bishop_square(p, strongSide)
        queenSq   == queen_square(p, strongSide)
        loserKSq  == king_square(p, weakSide)
        r0 == non_pawn_material(p.m, strongSide)
              + count(p.m, strongSide, PAWN) * PawnValueEg
              + At(PushToEdges, loserKSq)
              + At(PushClose, distance(winnerKSq, loserKSq))
        r1 == IF count(p.m, strongSide, BISHOP) >= 1
              THEN r0 + At(PushToEdges, loserKSq) + At(PushWin, distance(bishopSq, loserKSq))
              ELSE r0
        r2 == IF count(p.m, strongSide, QUEEN) >= 1
              THEN r1 + At(PushToEdges, loserKSq) + At(PushWin, distance(queenSq, loserKSq))
              ELSE r1
        r3 == IF KXKForcedMate(p, strongSide)
              THEN Min(r2 + VALUE_KNOWN_WIN, VALUE_MATE_IN_MAX_PLY - 1)
              ELSE r2
    IN  IF LoneKingStalemate(p, weakSide) THEN VALUE_DRAW
        ELSE IF QueensCannotMate(p, strongSide) THEN VALUE_DRAW
        ELSE SignedResult(p, strongSide, r3)

\* A parity rule that is the same for both colors.
PromotesOnLightAsWhite(s, strongSide) == file_of(s) % 2 = 0

\* file_of(pop_lsb(&b)) % 2 == (strongSide == WHITE ? 0 : 1): the pawn gives a
\* light queen.
PromotesOnLight(s, strongSide) ==
    file_of(s) % 2 = (IF strongSide = WHITE THEN 0 ELSE 1)

\* The pawn loop of KQsPsK: pop_lsb takes the pawns from the lowest square up, while
\* one of the two colors is still missing.
RECURSIVE PromotionColors(_, _, _, _)
PromotionColors(b, strongSide, dark, light) ==
    IF b = {} \/ (dark /\ light) THEN [dark |-> dark, light |-> light]
    ELSE LET s == CHOOSE x \in b : \A y \in b : x <= y
         IN  IF PromotesOnLight(s, strongSide)
             THEN PromotionColors(b \ {s}, strongSide, dark, TRUE)
             ELSE PromotionColors(b \ {s}, strongSide, TRUE, light)

\* A draw threshold of two men instead of three.
TooFewMenTwo(p, strongSide) ==
    count(p.m, strongSide, QUEEN) + count(p.m, strongSide, PAWN) < 2

\* pos.count<QUEEN>(strongSide) + pos.count<PAWN>(strongSide) < 3
TooFewMen(p, strongSide) ==
    count(p.m, strongSide, QUEEN) + count(p.m, strongSide, PAWN) < 3

\* Endgame<KQsPsK>::operator()
EndgameKQsPsK(p, strongSide) ==
    LET weakSide == Opp(strongSide)
        loserKSq == king_square(p, weakSide)
        r0 == non_pawn_material(p.m, strongSide)
              + count(p.m, strongSide, PAWN) * PawnValueEg
              - count(p.m, weakSide, PAWN) * PawnValueEg
        dark  == dark_queens(p, strongSide)
        light == light_queens(p, strongSide)
        pc    == PromotionColors(p.pl.pawns[strongSide], strongSide, dark, light)
    IN  IF count(p.m, strongSide, QUEEN) >= 3 /\ dark /\ light
        THEN SignedResult(p, strongSide, r0 + At(PushToEdges, loserKSq))
        ELSE IF TooFewMen(p, strongSide) THEN VALUE_DRAW
        ELSE IF ~pc.dark \/ ~pc.light THEN VALUE_DRAW
        ELSE SignedResult(p, strongSide, r0)

\* The index "strongSide == WHITE ? loserKSq : ~loserKSq".
OpposingSideIndex(strongSide, loserKSq) ==
    IF strongSide = WHITE THEN loserKSq ELSE FlipSq(loserKSq)

\* The index "opposite_colors(queenSq, SQ_A1) ? ~loserKSq : loserKSq".
QueenCornerIndex(queenSq, loserKSq) ==
    IF opposite_colors(queenSq, SQ_A1) THEN FlipSq(loserKSq) ELSE loserKSq

\* The body shared by Endgame<KXKP>, <KXKQ>, <KXKB>, <KXKN> and <KXKR>; the first two
\* add a term on the weak side's queen when the strong side has a queen. oob is what
\* the read of SquareDistance[..][SQ_NONE] and of PushAway[] with it gives when the
\* weak side has no queen.
LargeEdgeScore(p, strongSide, weakQueenTerm, oob) ==
    LET weakSide  == Opp(strongSide)
        winnerKSq == king_square(p, strongSide)
        knightSq  == knight_square(p, strongSide)
        bishopSq  == bishop_square(p, strongSide)
        queenSq   == queen_square(p, strongSide)
        loserKSq  == king_square(p, weakSide)
        r0 == non_pawn_material(p.m, strongSide)
              + At(PushToEdges, loserKSq)
              + At(PushToCorners, loserKSq)
              + At(PushToOpposingSideEdges, OpposingSideIndex(strongSide, loserKSq))
              + At(PushToQueenCorners, QueenCornerIndex(queenSq, loserKSq))
              + At(PushClose, distance(winnerKSq, loserKSq))
        r1 == IF weakQueenTerm /\ count(p.m, strongSide, QUEEN) # 0
              THEN r0 + (IF queen_square(p, weakSide) = SQ_NONE THEN oob
                         ELSE At(PushAway, distance(loserKSq, queen_square(p, weakSide))))
              ELSE r0
        r2 == IF count(p.m, strongSide, ROOK) # 0
              THEN r1 + At(PushToEdges, loserKSq) ELSE r1
        r3 == IF count(p.m, strongSide, KNIGHT) # 0
              THEN r2 + (At(PushClose, distance(knightSq, winnerKSq)) \div 2)
                      + At(PushToCorners, loserKSq)
              ELSE r2
        r4 == IF count(p.m, strongSide, BISHOP) # 0
              THEN r3 + (At(PushClose, distance(bishopSq, winnerKSq)) \div 2)
                      + At(PushToOpposingSideEdges, OpposingSideIndex(strongSide, loserKSq))
              ELSE r3
        r5 == IF count(p.m, strongSide, QUEEN) # 0
              THEN r4 + (At(PushClose, distance(queenSq, winnerKSq)) \div 2)
                      + At(PushToQueenCorners, QueenCornerIndex(queenSq, loserKSq))
              ELSE r4
    IN  SignedResult(p, strongSide, r5)

EndgameKXKP(p, strongSide, oob) == LargeEdgeScore(p, strongSide, TRUE, oob)
EndgameKXKQ(p, strongSide, oob) == LargeEdgeScore(p, strongSide, TRUE, oob)
EndgameKXKB(p, strongSide) == LargeEdgeScore(p, strongSide, FALSE, 0)
EndgameKXKN(p, strongSide) == LargeEdgeScore(p, strongSide, FALSE, 0)
EndgameKXKR(p, strongSide) == LargeEdgeScore(p, strongSide, FALSE, 0)

\* Endgame<KBQK>::operator()
EndgameKBQK(p, strongSide) ==
    LET weakSide  == Opp(strongSide)
        winnerKSq == king_square(p, strongSide)
        loserKSq  == king_square(p, weakSide)
        bishopSq  == bishop_square(p, strongSide)
        queenSq   == queen_square(p, strongSide)
        inCorner  ==
            \/ (At(KingCorners, loserKSq) = 1 /\ ~opposite_colors(queenSq, SQ_A1))
            \/ (At(KingCorners, loserKSq) = 2 /\ ~opposite_colors(queenSq, SQ_H1))
            \/ (At(KingCorners, loserKSq) = 3 /\ ~opposite_colors(queenSq, SQ_A8))
            \/ (At(KingCorners, loserKSq) = 4 /\ ~opposite_colors(queenSq, SQ_H8))
        flip == inCorner /\ opposite_colors(queenSq, SQ_A1)
        wK == IF flip THEN FlipSq(winnerKSq) ELSE winnerKSq
        lK == IF flip THEN FlipSq(loserKSq) ELSE loserKSq
        r0 == IF inCorner
              THEN VALUE_KNOWN_WIN + At(PushClose, distance(wK, lK))
                   + At(PushToQueenCorners, lK)
              ELSE VALUE_KNOWN_WIN + At(PushClose, distance(wK, lK))
                   + At(PushToOpposingSideEdges, OpposingSideIndex(strongSide, lK))
        r1 == IF count(p.m, strongSide, BISHOP) # 0
              THEN r0 + (At(PushClose, distance(bishopSq, wK)) \div 2)
                      + At(PushToOpposingSideEdges, OpposingSideIndex(strongSide, lK))
              ELSE r0
        r2 == IF count(p.m, strongSide, QUEEN) # 0
              THEN r1 + (At(PushClose, distance(queenSq, wK)) \div 2)
                      + At(PushToQueenCorners, QueenCornerIndex(queenSq, lK))
              ELSE r1
    IN  SignedResult(p, strongSide, r2)

\* A test that lets the weak king be one square farther from the corners.
FarFromQueenCornersFive(loserKSq) ==
    distance(SQ_A1, loserKSq) >= 5 /\ distance(SQ_H8, loserKSq) >= 5

\* distance(SQ_A1, loserKSq) >= 4 && distance(SQ_H8, loserKSq) >= 4
FarFromQueenCorners(loserKSq) ==
    distance(SQ_A1, loserKSq) >= 4 /\ distance(SQ_H8, loserKSq) >= 4

\* Endgame<KNQK>::operator()
EndgameKNQK(p, strongSide) ==
    LET weakSide == Opp(strongSide)
        queenSq  == queen_square(p, strongSide)
        flip     == opposite_colors(queenSq, SQ_A1)
        wK == IF flip THEN FlipSq(king_square(p, strongSide)) ELSE king_square(p, strongSide)
        lK == IF flip THEN FlipSq(king_square(p, weakSide)) ELSE king_square(p, weakSide)
        nS == IF flip THEN FlipSq(knight_square(p, strongSide)) ELSE knight_square(p, strongSide)
        corner   == IF distance(SQ_A1, lK) < 4 THEN SQ_A1 ELSE SQ_H8
        winValue == IF /\ distance(wK, corner) <= 4
                       /\ Cardinality(KingAttacks(lK) \cap KnightAttacks(nS)) > 0
                    THEN VALUE_KNOWN_WIN ELSE VALUE_ZERO
        r0 == winValue + At(PushClose, distance(wK, lK)) + At(PushToQueenCorners, lK)
        r1 == IF count(p.m, strongSide, KNIGHT) # 0
              THEN r0 + (At(PushClose, distance(nS, wK)) \div 2) + At(PushToCorners, lK)
              ELSE r0
        r2 == IF count(p.m, strongSide, QUEEN) # 0
              THEN r1 + (At(PushClose, distance(queenSq, wK)) \div 2)
                      + At(PushToQueenCorners, QueenCornerIndex(queenSq, lK))
              ELSE r1
    IN  IF FarFromQueenCorners(lK) THEN At(PushClose, distance(wK, lK))
        ELSE SignedResult(p, strongSide, r2)

\* Endgame<KNNK>, <KNK>, <KBK>, <KQQK>::operator(): return VALUE_DRAW
EndgameDraw(p) == VALUE_DRAW

\* The call through the pointer an Entry holds: (*evaluationFunction)(pos).
CallEvaluation(fn, p, oob) ==
    LET E == fn[1]
        strongSide == IF fn[3] = 0 THEN generic[E][fn[2]] ELSE fn[2]
    IN  CASE E = "KXK"    -> EndgameKXK(p, strongSide)
          [] E = "KQsPsK" -> EndgameKQsPsK(p, strongSide)
          [] E = "KXKP"   -> EndgameKXKP(p, strongSide, oob)
          [] E = "KXKQ"   -> EndgameKXKQ(p, strongSide, oob)
          [] E = "KXKB"   -> EndgameKXKB(p, strongSide)
          [] E = "KXKN"   -> EndgameKXKN(p, strongSide)
          [] E = "KXKR"   -> EndgameKXKR(p, strongSide)
          [] E = "KBQK"   -> EndgameKBQK(p, strongSide)
          [] E = "KNQK"   -> EndgameKNQK(p, strongSide)
          [] E \in {"KNNK", "KNK", "KBK", "KQQK"} -> EndgameDraw(p)

-----------------------------------------------------------------------------
(* The search workers probing their material tables *)

\* Compositions the workers meet: two registered endgames, two classified ones
\* and two that fall through to the imbalance; three of them per slot of a table
\* of two.
CacheMaterials ==
    { Mat(0, 0, 0, 2, 0,  0, 0, 0, 0, 0),
      Mat(0, 0, 0, 0, 0,  0, 2, 0, 0, 0),
      Mat(0, 0, 0, 0, 1,  0, 0, 0, 0, 0),
      Mat(0, 0, 0, 0, 0,  1, 0, 0, 0, 0),
      Mat(1, 1, 0, 0, 0,  0, 0, 1, 0, 0),
      Mat(0, 0, 1, 1, 1,  0, 0, 0, 1, 1) }

InitCommon ==
    /\ materialTable = [w \in Workers |-> [s \in 0..(TableSize - 1) |-> ZeroEntry]]
    /\ endgames = [w \in Workers |->
                      [value |-> BuildRegistry(w), scale |-> BuildScaleRegistry(w)]]
    /\ generic = BuildGeneric
    /\ ret = NoRet
    /\ snap = NoSnap
    /\ score = NoScore

Init ==
    /\ InitCommon
    /\ pos = [thread |-> 1, m |-> Mat(0, 0, 0, 0, 0, 0, 0, 0, 0, 0), pl |-> NoPlacement]

\* A worker reaches a position and probes its material. One return of probe may be
\* remembered, to be compared with later returns for the same worker and key.
Probe ==
    \E w \in Workers, m \in CacheMaterials,
       remember \in (IF snap.valid THEN {FALSE} ELSE BOOLEAN) :
        /\ ProbeCall(w, m)
        /\ pos' = [thread |-> w, m |-> m, pl |-> NoPlacement]
        /\ snap' = IF ~snap.valid
                   THEN IF remember
                        THEN [valid |-> TRUE, worker |-> w, key |-> material_key(m),
                              entry |-> ret'.entry]
                        ELSE snap
                   ELSE snap
        /\ UNCHANGED score

Next == Probe

Spec == Init /\ [][Next]_vars

-----------------------------------------------------------------------------
(* probe as a function of the material: one call on a fresh table *)

InitProbe ==
    /\ InitCommon
    /\ pos \in [thread : {1}, m : Materials, pl : {NoPlacement}]

ProbeOnce ==
    /\ ~ret.valid
    /\ ProbeCall(pos.thread, pos.m)
    /\ UNCHANGED <<pos, snap, score>>

NextProbe == ProbeOnce

SpecProbe == InitProbe /\ [][NextProbe]_vars

-----------------------------------------------------------------------------
(* Evaluation of a position through its Entry, and of its mirror image *)

\* Squares the kings, the queens and minor pieces, and the pawns stand on.
KingSquares  == { 0, 7, 18, 28, 45, 56, 63 }
PieceSquares == { 11, 21, 33, 36, 54 }
PawnSquares  == { 26, 27 }

\* What an out-of-bounds read of PushAway can add to a score.
OobValues == { 0, 1 }

\* Compositions of every registered and every classified kind, white being the
\* strong side, and three with one minor piece a side.
EvalMaterials ==
    { Mat(0, 0, 0, 2, 0,  0, 0, 0, 0, 0),
      Mat(0, 0, 0, 1, 0,  0, 0, 0, 0, 0),
      Mat(0, 0, 1, 0, 0,  0, 0, 0, 0, 0),
      Mat(0, 2, 0, 0, 0,  0, 0, 0, 0, 0),
      Mat(0, 1, 1, 0, 0,  0, 0, 0, 0, 0),
      Mat(0, 1, 0, 1, 0,  0, 0, 0, 0, 0),
      Mat(0, 0, 0, 0, 1,  0, 0, 0, 0, 0),
      Mat(0, 3, 0, 0, 0,  0, 0, 0, 0, 0),
      Mat(0, 3, 0, 0, 1,  0, 0, 0, 0, 0),
      Mat(0, 1, 0, 0, 0,  0, 0, 0, 0, 0),
      Mat(1, 0, 0, 0, 0,  0, 0, 0, 0, 0),
      Mat(1, 1, 0, 0, 0,  0, 0, 0, 0, 0),
      Mat(2, 0, 0, 0, 0,  0, 0, 0, 0, 0),
      Mat(1, 2, 0, 0, 0,  0, 0, 0, 0, 0),
      Mat(2, 1, 0, 0, 0,  0, 0, 0, 0, 0),
      Mat(0, 0, 0, 0, 2,  1, 0, 0, 0, 0),
      Mat(0, 1, 0, 0, 1,  1, 1, 0, 0, 0),
      Mat(0, 1, 0, 0, 1,  1, 0, 0, 0, 0),
      Mat(0, 0, 1, 0, 1,  0, 1, 0, 0, 0),
      Mat(0, 1, 0, 0, 1,  0, 0, 1, 0, 0),
      Mat(0, 0, 0, 1, 1,  0, 0, 0, 1, 0),
      Mat(0, 0, 1, 0, 2,  0, 0, 0, 0, 1),
      Mat(0, 0, 0, 1, 0,  0, 0, 1, 0, 0),
      Mat(0, 0, 1, 0, 0,  0, 0, 1, 0, 0),
      Mat(0, 0, 0, 1, 0,  0, 0, 0, 1, 0) }

\* The sequences of n different elements of S.
RECURSIVE Arrangements(_, _)
Arrangements(n, S) ==
    IF n = 0 THEN { <<>> }
    ELSE UNION { { <<x>> \o t : t \in Arrangements(n - 1, S \ {x}) } : x \in S }

\* The pieces of a composition that get a square of PieceSquares: the queens of
\* both sides, and the first bishop and the first knight of each side.
PlacedCount(m, c, pt) ==
    IF pt = QUEEN THEN count(m, c, QUEEN) ELSE Min(count(m, c, pt), 1)

PlacedTotal(m) ==
    PlacedCount(m, WHITE, QUEEN) + PlacedCount(m, WHITE, BISHOP)
    + PlacedCount(m, WHITE, KNIGHT) + PlacedCount(m, BLACK, QUEEN)
    + PlacedCount(m, BLACK, BISHOP) + PlacedCount(m, BLACK, KNIGHT)

ByColor(w, b) == [c \in Color |-> IF c = WHITE THEN w ELSE b]

\* The placement that puts the pieces of m on the squares of a, in the order white
\* queens, white bishop, white knight, black queens, black bishop, black knight.
Placement(m, stm, wk, bk, a, wp, bp, noLegal) ==
    LET wq == PlacedCount(m, WHITE, QUEEN)
        wb == PlacedCount(m, WHITE, BISHOP)
        wn == PlacedCount(m, WHITE, KNIGHT)
        bq == PlacedCount(m, BLACK, QUEEN)
        bb == PlacedCount(m, BLACK, BISHOP)
        bn == PlacedCount(m, BLACK, KNIGHT)
        o1 == wq + wb + wn
    IN  [ stm     |-> stm,
          ksq     |-> ByColor(wk, bk),
          queens  |-> ByColor(SubSeq(a, 1, wq), SubSeq(a, o1 + 1, o1 + bq)),
          bishop  |-> ByColor(IF wb = 1 THEN a[wq + 1] ELSE SQ_NONE,
                              IF bb = 1 THEN a[o1 + bq + 1] ELSE SQ_NONE),
          knight  |-> ByColor(IF wn = 1 THEN a[wq + wb + 1] ELSE SQ_NONE,
                              IF bn = 1 THEN a[o1 + bq + bb + 1] ELSE SQ_NONE),
          pawns   |-> ByColor(wp, bp),
          noLegal |-> noLegal ]

\* The sets of n squares of S.
SubsetsOfSize(n, S) == { b \in SUBSET S : Cardinality(b) = n }

\* A side with a bare king, to move, may have no legal move.
MayBeStalemated(m, stm) == ~more_than_one_piece(m, stm)

\* The positions of material m: kings not next to each other, no two men on a
\* square, either side to move.
PositionsOf(m) ==
    { [thread |-> 1, m |-> m,
       pl |-> Placement(m, x.stm, x.wk, x.bk, x.a, x.wp, x.bp, x.noLegal)] :
      x \in { y \in [ stm : Color, wk : KingSquares, bk : KingSquares,
                      a  : Arrangements(PlacedTotal(m), PieceSquares),
                      wp : SubsetsOfSize(count(m, WHITE, PAWN), PawnSquares),
                      bp : SubsetsOfSize(count(m, BLACK, PAWN), PawnSquares),
                      noLegal : BOOLEAN ] :
                /\ distance(y.wk, y.bk) > 1
                /\ y.wp \cap y.bp = {}
                /\ y.noLegal => MayBeStalemated(m, y.stm) } }

\* Position::flip(): the colors swapped and every square reflected in the middle of
\* the board, the same side relative to the material on move.
FlipSeq(q) == [i \in 1..Len(q) |-> FlipSq(q[i])]

MirrorPlacement(pl) ==
    [ stm     |-> Opp(pl.stm),
      ksq     |-> [c \in Color |-> FlipSq(pl.ksq[Opp(c)])],
      queens  |-> [c \in Color |-> FlipSeq(pl.queens[Opp(c)])],
      bishop  |-> [c \in Color |-> FlipSq(pl.bishop[Opp(c)])],
      knight  |-> [c \in Color |-> FlipSq(pl.knight[Opp(c)])],
      pawns   |-> [c \in Color |-> { FlipSq(s) : s \in pl.pawns[Opp(c)] }],
      noLegal |-> pl.noLegal ]

MirrorMaterial(m) == [c \in Color |-> m[Opp(c)]]

\* The evaluator reads PushAway at the distance to a queen the weak side does not
\* have: Endgame<KXKP> with a queen on the strong side.
ReadsOutOfBounds(fn, p) ==
    /\ fn[1] \in {"KXKP", "KXKQ"}
    /\ count(p.m, fn[2], QUEEN) # 0
    /\ count(p.m, Opp(fn[2]), QUEEN) = 0

InitEval ==
    /\ InitCommon
    /\ \E m \in EvalMaterials : pos \in PositionsOf(m)

\* evaluate(pos): probe the material table and, when the Entry has a specialized
\* evaluator, return what it gives for the position.
Evaluate ==
    /\ Len(score.evals) = (IF score.mirrored THEN 1 ELSE 0)
    /\ ProbeCall(pos.thread, pos.m)
    /\ LET fn == ret'.entry.evaluationFunction
       IN  \E oob \in (IF ReadsOutOfBounds(fn, pos) THEN OobValues ELSE {0}) :
              score' = [score EXCEPT !.evals =
                           Append(@, [ fn |-> fn,
                                       oob |-> ReadsOutOfBounds(fn, pos),
                                       v  |-> IF fn = NullFn THEN 0
                                              ELSE CallEvaluation(fn, pos, oob) ])]
    /\ UNCHANGED <<pos, snap>>

\* The position is replaced by its mirror image.
Mirror ==
    /\ Len(score.evals) = 1
    /\ ~score.mirrored
    /\ pos' = [pos EXCEPT !.m = MirrorMaterial(pos.m), !.pl = MirrorPlacement(pos.pl)]
    /\ score' = [score EXCEPT !.mirrored = TRUE]
    /\ UNCHANGED <<materialTable, endgames, generic, ret, snap>>

NextEval == Evaluate \/ Mirror

SpecEval == InitEval /\ [][NextEval]_vars

-----------------------------------------------------------------------------
(* Properties of the cache *)

\* What a computation on a cleared slot stores for material m on worker w.
FreshEntry(w, m) == ProbeMiss(w, m, ZeroEntry).entry

\* C1: whatever sequence of probes came before, collisions included, the Entry
\* probe returns for a position carries that position's material key and is equal
\* to what a fresh computation for that material stores.
C1_ReturnedEntryIsFresh ==
    ret.valid =>
        /\ ret.entry.key = material_key(pos.m)
        /\ ret.entry = FreshEntry(pos.thread, pos.m)

\* C1 witness: a probe found another composition's Entry in its slot and recomputed.
C1_Witness_Collision ==
    /\ ret.valid
    /\ ~ret.hit
    /\ ret.old # 0
    /\ ret.old # material_key(pos.m)

\* C2: a probe for the worker and key of a remembered earlier probe returns an
\* Entry equal to the remembered one in every field.
C2_SameKeySameEntry ==
    (snap.valid /\ ret.valid /\ pos.thread = snap.worker
                /\ material_key(pos.m) = snap.key)
        => ret.entry = snap.entry

\* C2 witness: the second probe for the key is a recomputation: a colliding key
\* had taken the slot since the remembered probe.
C2_Witness_RecomputedAfterEviction ==
    /\ snap.valid /\ ret.valid
    /\ pos.thread = snap.worker
    /\ material_key(pos.m) = snap.key
    /\ ~ret.hit
    /\ ret.old # 0
    /\ snap.entry.value # 0

\* C3: a probe by one worker leaves every other worker's table, the registries and
\* the generic evaluator instances as they were, and returns what that worker
\* would get running alone.
C3_ProbeWritesOwnTableOnly ==
    [][ /\ \A w \in Workers : w # pos'.thread => materialTable'[w] = materialTable[w]
        /\ endgames' = endgames
        /\ generic' = generic
        /\ ret'.entry = FreshEntry(pos'.thread, pos'.m) ]_vars

\* C3 witness: both workers have probed, and their tables differ.
C3_Witness_TwoWorkers ==
    /\ ret.valid
    /\ \E s \in 0..(TableSize - 1) : materialTable[1][s].key # 0
    /\ \E s \in 0..(TableSize - 1) : materialTable[2][s].key # 0
    /\ materialTable[1] # materialTable[2]

-----------------------------------------------------------------------------
(* Properties of the miss path *)

Registered(w, m) == material_key(m) \in DOMAIN endgames[w].value

FamilyHolds(i, m) == \E c \in Color : Holds(Families[i], m, c)

\* C4: on a miss for a key the Value registry holds, probe attaches the registered
\* evaluator and evaluates no classifier predicate, also when one would hold.
C4_RegistryOverridesClassifier ==
    (ret.valid /\ ~ret.hit /\ Registered(pos.thread, pos.m)) =>
        /\ ret.entry.evaluationFunction = endgames[pos.thread].value[material_key(pos.m)]
        /\ ret.entry.evaluationFunction[3] = pos.thread
        /\ ret.tried = <<>>

\* C4 witness: a registered composition for which a classifier predicate holds too.
C4_Witness_RegisteredAndClassified ==
    /\ ret.valid /\ ~ret.hit
    /\ Registered(pos.thread, pos.m)
    /\ \E i \in 1..Len(Families) : FamilyHolds(i, pos.m)

\* C5: on a miss with no registry match, the generic evaluator attached is that of
\* the earliest family, in the order KXK, KQsPsK, KXKP, KXKQ, KXKB, KXKN, KXKR, whose
\* predicate holds for either color, bound to a color for which it holds; none is
\* attached when no family's predicate holds.
C5_EarliestFamilyWins ==
    (ret.valid /\ ~ret.hit /\ ~Registered(pos.thread, pos.m)) =>
        LET fn == ret.entry.evaluationFunction
        IN  /\ \A i \in 1..Len(Families) :
                  (fn[1] = Families[i]) <=>
                      (FamilyHolds(i, pos.m) /\ \A j \in 1..(i - 1) : ~FamilyHolds(j, pos.m))
            /\ (fn = NullFn) <=> (\A i \in 1..Len(Families) : ~FamilyHolds(i, pos.m))
            /\ fn # NullFn => (Holds(fn[1], pos.m, fn[2]) /\ fn[3] = 0)

\* C5 witness: two families hold for the same composition, and the earlier one won.
C5_Witness_TwoFamiliesHold ==
    /\ ret.valid /\ ~ret.hit /\ ~Registered(pos.thread, pos.m)
    /\ \E i, j \in 1..Len(Families) :
          i < j /\ FamilyHolds(i, pos.m) /\ FamilyHolds(j, pos.m)
                /\ ret.entry.evaluationFunction[1] = Families[i]

\* C6 as stated: with evaluationFunction set, the Entry still holds the imbalance
\* score of the piece counts as value, and the game phase.
C6_ValueStillComputed ==
    (ret.valid /\ ret.entry.evaluationFunction # NullFn) =>
        /\ ret.entry.value = ImbalanceValue(pos.m)
        /\ ret.entry.gamePhase = GamePhase(pos.m)

\* C6 amended: with evaluationFunction set, the Entry holds the game phase, and its
\* value is the 0 of the cleared slot: the imbalance is not computed.
C6_PhaseStoredValueZero ==
    (ret.valid /\ ret.entry.evaluationFunction # NullFn) =>
        /\ ret.entry.gamePhase = GamePhase(pos.m)
        /\ ret.entry.value = 0

\* C6 witness: an evaluator is attached to material whose imbalance and phase are
\* not 0.
C6_Witness_EvaluatorAndImbalance ==
    /\ ret.valid
    /\ ret.entry.evaluationFunction # NullFn
    /\ ImbalanceValue(pos.m) # 0
    /\ ret.entry.gamePhase > 0

RECURSIVE SumFn(_, _, _)
SumFn(f, lo, hi) == IF lo > hi THEN 0 ELSE f[lo] + SumFn(f, lo + 1, hi)

\* bonus(c) of the claim: every type from the pair slot to ROOK contributes.
ClaimBonus(pcv, c) ==
    SumFn([pt1 \in NO_PIECE_TYPE..ROOK |->
              pcv[c][pt1] *
              SumFn([pt2 \in NO_PIECE_TYPE..pt1 |->
                        Ours(pt1, pt2) * pcv[c][pt2]
                      + Theirs(pt1, pt2) * pcv[Opp(c)][pt2]],
                    NO_PIECE_TYPE, pt1)],
          NO_PIECE_TYPE, ROOK)

\* q is d / n with the quotient truncated toward zero.
IsTruncatedQuotient(q, d, n) ==
    /\ d >= 0 => (q >= 0 /\ n * q <= d /\ d < n * (q + 1))
    /\ d < 0  => (q <= 0 /\ n * q >= d /\ d > n * (q - 1))

ClaimDiff(m) ==
    ClaimBonus(PieceCountOf(m), WHITE) - ClaimBonus(PieceCountOf(m), BLACK)

\* C7: with no evaluator and no scaling function attached, the stored value is
\* (bonus(WHITE) - bonus(BLACK)) / 16 truncated toward zero; the 16-bit store
\* leaves the quotient as it is.
C7_ImbalanceTruncatedQuotient ==
    (ret.valid /\ ret.entry.evaluationFunction = NullFn
               /\ \A c \in Color : ret.entry.scalingFunction[c] = NullFn) =>
        IsTruncatedQuotient(ret.entry.value, ClaimDiff(pos.m), 16)

\* C7 witness: a negative difference that 16 does not divide, where truncation and
\* flooring differ.
C7_Witness_NegativeInexact ==
    /\ ret.valid /\ ret.entry.evaluationFunction = NullFn
    /\ ClaimDiff(pos.m) < 0
    /\ ClaimDiff(pos.m) % 16 # 0
    /\ ret.entry.value < 0

\* The non-pawn material one side can have.
SideNpms == { non_pawn_material(m, WHITE) : m \in Materials }

\* C8: gamePhase is ((clamp(npm_w + npm_b, EndgameLimit, MidgameLimit) - EndgameLimit)
\* * PHASE_MIDGAME) / (MidgameLimit - EndgameLimit): within [0, PHASE_MIDGAME], 0 at
\* or below EndgameLimit, PHASE_MIDGAME at or above MidgameLimit, and no composition
\* with at least as much non-pawn material gets a smaller phase.
C8_GamePhaseMapping ==
    ret.valid =>
        LET total   == non_pawn_material(pos.m, WHITE) + non_pawn_material(pos.m, BLACK)
            clamped == IF total < EndgameLimit THEN EndgameLimit
                       ELSE IF total > MidgameLimit THEN MidgameLimit ELSE total
            ph      == ret.entry.gamePhase
        IN  /\ ph = ((clamped - EndgameLimit) * PHASE_MIDGAME)
                        \div (MidgameLimit - EndgameLimit)
            /\ 0 <= ph /\ ph <= PHASE_MIDGAME
            /\ total <= EndgameLimit => ph = 0
            /\ total >= MidgameLimit => ph = PHASE_MIDGAME
            /\ \A a, b \in SideNpms : a + b >= total => PhaseOf(a, b) >= ph

\* C8 witness: total non-pawn material above MidgameLimit, where the clamp acts.
C8_Witness_AboveMidgameLimit ==
    /\ ret.valid
    /\ non_pawn_material(pos.m, WHITE) + non_pawn_material(pos.m, BLACK) > MidgameLimit
    /\ ret.entry.gamePhase = PHASE_MIDGAME

-----------------------------------------------------------------------------
(* Properties of the evaluators *)

\* The position has been evaluated as it stands.
Evaluated == Len(score.evals) = (IF score.mirrored THEN 2 ELSE 1)

LastEval == score.evals[Len(score.evals)]

\* The counts <<pawns, queens, bishops, knights, rooks>> of one side.
CountsOf(m, c) == << m[c][PAWN], m[c][QUEEN], m[c][BISHOP], m[c][KNIGHT], m[c][ROOK] >>

\* Two knights, knight, bishop, two queens, queen and pawn, two pawns, queen, or pawn
\* against the bare king.
DrawnAgainstBareKing(m) ==
    \E c \in Color :
        /\ CountsOf(m, Opp(c)) = <<0, 0, 0, 0, 0>>
        /\ CountsOf(m, c) \in { <<0, 0, 0, 2, 0>>, <<0, 0, 0, 1, 0>>, <<0, 0, 1, 0, 0>>,
                                <<0, 2, 0, 0, 0>>, <<1, 1, 0, 0, 0>>, <<2, 0, 0, 0, 0>>,
                                <<0, 1, 0, 0, 0>>, <<1, 0, 0, 0, 0>> }

\* One bishop or knight and nothing else on each side.
MinorVsMinor(m) ==
    \A c \in Color :
        CountsOf(m, c) \in { <<0, 0, 1, 0, 0>>, <<0, 0, 0, 1, 0>> }

\* C9 as stated: for every pattern of the trivial-draw set, the single minor piece
\* against single minor piece patterns included, probe attaches an evaluator, and
\* it returns VALUE_DRAW whatever the squares and the side to move.
C9_TrivialDrawSetReturnsDraw ==
    (Evaluated /\ (DrawnAgainstBareKing(pos.m) \/ MinorVsMinor(pos.m))) =>
        /\ LastEval.fn # NullFn
        /\ LastEval.v = VALUE_DRAW

\* C9 amended: for the eight patterns against the bare king, probe attaches an
\* evaluator, and it returns VALUE_DRAW whatever the squares and the side to move;
\* to a single minor piece against a single minor piece probe attaches none.
C9_BareKingPatternsReturnDraw ==
    /\ (Evaluated /\ DrawnAgainstBareKing(pos.m)) =>
          /\ LastEval.fn # NullFn
          /\ LastEval.v = VALUE_DRAW
    /\ (Evaluated /\ MinorVsMinor(pos.m)) => LastEval.fn = NullFn

\* C9 witness: queen and pawn against the bare king, black the strong side and to
\* move, the queen and the pawn's promotion square of different colors, evaluated
\* a draw by the KQsPsK evaluator.
C9_Witness_QueenAndPawnDrawn ==
    /\ Evaluated
    /\ CountsOf(pos.m, BLACK) = <<1, 1, 0, 0, 0>>
    /\ CountsOf(pos.m, WHITE) = <<0, 0, 0, 0, 0>>
    /\ pos.pl.stm = BLACK
    /\ LastEval.fn = <<"KQsPsK", BLACK, 0>>
    /\ LET pc == PromotionColors(pos.pl.pawns[BLACK], BLACK,
                                 dark_queens(pos, BLACK), light_queens(pos, BLACK))
       IN  pc.dark /\ pc.light
    /\ LastEval.v = VALUE_DRAW

\* A queen at most for each side, so that square<QUEEN> is the same queen in the
\* mirror image.
PlainPosition(p) == \A c \in Color : count(p.m, c, QUEEN) <= 1

\* C10: the score an evaluator gives for a position, from the point of view of the
\* side to move, is the score that the evaluator probe attaches for the mirror
\* image (colors swapped, squares reflected) gives for the mirror image, and that
\* evaluator is the instance of the same kind for the other color. Stated for the
\* evaluations that read no table out of its bounds.
C10_MirrorSameScore ==
    (Len(score.evals) = 2 /\ score.evals[1].fn # NullFn /\ PlainPosition(pos)
        /\ ~score.evals[1].oob /\ ~score.evals[2].oob) =>
        /\ score.evals[2].fn[1] = score.evals[1].fn[1]
        /\ score.evals[2].fn[2] = Opp(score.evals[1].fn[2])
        /\ score.evals[2].v = score.evals[1].v

-----------------------------------------------------------------------------
(* Knight and queen against the bare king *)

\* The last evaluation went through the evaluator of kind E.
EvaluatedBy(E) == Evaluated /\ LastEval.fn[1] = E

StrongSide == LastEval.fn[2]

\* A square in the orientation whose target corners are A1 and H8.
Normalized(s) ==
    IF opposite_colors(queen_square(pos, StrongSide), SQ_A1) THEN FlipSq(s) ELSE s

NormWeakKing == Normalized(king_square(pos, Opp(StrongSide)))
NormStrongKing == Normalized(king_square(pos, StrongSide))

\* The king-closeness term.
Closeness == At(PushClose, distance(NormStrongKing, NormWeakKing))

\* The weak king is at least d king steps from both target corners.
AwayFromTargetCorners(d) ==
    distance(SQ_A1, NormWeakKing) >= d /\ distance(SQ_H8, NormWeakKing) >= d

\* The smothering test: the strong king within 4 of the target corner nearer to the
\* weak king, and the knight attacking a square next to the weak king.
Smothering ==
    /\ distance(NormStrongKing,
                IF distance(SQ_A1, NormWeakKing) < 4 THEN SQ_A1 ELSE SQ_H8) <= 4
    /\ KingAttacks(NormWeakKing)
         \cap KnightAttacks(Normalized(knight_square(pos, StrongSide))) # {}

\* The result is the closeness term alone exactly when the weak king is d or more
\* from both target corners; otherwise it has the closeness and queen-corner
\* terms, and VALUE_KNOWN_WIN exactly when the smothering test succeeds.
KNQKThreshold(d) ==
    EvaluatedBy("KNQK") =>
        /\ (LastEval.v = Closeness) <=> AwayFromTargetCorners(d)
        /\ ~AwayFromTargetCorners(d) =>
              /\ Abs(LastEval.v) >= Closeness + At(PushToQueenCorners, NormWeakKing)
                                    + (IF Smothering THEN VALUE_KNOWN_WIN ELSE 0)
              /\ (Abs(LastEval.v) >= VALUE_KNOWN_WIN) <=> Smothering

\* C11 as stated: the knight+queen vs king evaluator returns the closeness term
\* alone exactly when the weak king is farther than 4 (5 or more) from both target
\* corners, and goes on to the smothering test at distance 4 or less from one.
C11_CloseOnlyBeyondFour == KNQKThreshold(5)

\* C11 amended: the evaluator returns the closeness term alone exactly when the
\* weak king is 4 or more from both target corners, and goes on to the smothering
\* test at distance 3 or less from one.
C11_CloseOnlyFromFour == KNQKThreshold(4)

\* C11 witness: the weak king exactly 4 from both target corners, the smothering
\* test succeeding, and the result the closeness term alone.
C11_Witness_ExactlyFour ==
    /\ EvaluatedBy("KNQK")
    /\ distance(SQ_A1, NormWeakKing) = 4
    /\ distance(SQ_H8, NormWeakKing) = 4
    /\ Smothering
    /\ LastEval.v = Closeness

-----------------------------------------------------------------------------
(* Queens and pawns against the bare king *)

QueensAndPawns == count(pos.m, StrongSide, QUEEN) + count(pos.m, StrongSide, PAWN)

\* The strong side's material value with the pawn differential.
MaterialValue ==
    non_pawn_material(pos.m, StrongSide)
    + (count(pos.m, StrongSide, PAWN) - count(pos.m, Opp(StrongSide), PAWN)) * PawnValueEg

\* White pawns on even files and black pawns on odd files promote to a light queen.
PawnGivesLight(s) == (file_of(s) % 2 = 0) <=> (StrongSide = WHITE)

\* The square colors that the strong side's queens and pawns cover.
CoversLight ==
    \/ light_queens(pos, StrongSide)
    \/ \E s \in pos.pl.pawns[StrongSide] : PawnGivesLight(s)

CoversDark ==
    \/ dark_queens(pos, StrongSide)
    \/ \E s \in pos.pl.pawns[StrongSide] : ~PawnGivesLight(s)

ThreeQueensBothColors ==
    /\ count(pos.m, StrongSide, QUEEN) >= 3
    /\ dark_queens(pos, StrongSide) /\ light_queens(pos, StrongSide)

\* v is x from the strong side's point of view, given for the side to move.
SignedFor(x) == IF pos.pl.stm = StrongSide THEN x ELSE -x

\* C12: the queens-and-pawns-only vs king evaluator returns VALUE_DRAW when queens
\* plus pawns are fewer than three; with three or more and not three queens on both
\* colors, it returns VALUE_DRAW exactly when queens and pawn promotion colors
\* cover one square color only; otherwise it returns the material value, unchanged
\* or with the edge-push bonus, signed by the side to move.
C12_QueensAndPawnsDrawRules ==
    EvaluatedBy("KQsPsK") =>
        /\ QueensAndPawns < 3 => LastEval.v = VALUE_DRAW
        /\ (QueensAndPawns >= 3 /\ ~ThreeQueensBothColors) =>
              /\ (LastEval.v = VALUE_DRAW) <=> ~(CoversLight /\ CoversDark)
              /\ (CoversLight /\ CoversDark) => LastEval.v = SignedFor(MaterialValue)
        /\ ThreeQueensBothColors =>
              LastEval.v = SignedFor(MaterialValue
                                     + At(PushToEdges, king_square(pos, Opp(StrongSide))))

\* C12 witness: black, the strong side, has two queens on one color and a pawn that
\* promotes on the other, and the weak side to move gets the negated material value.
C12_Witness_PawnGivesOtherColor ==
    /\ EvaluatedBy("KQsPsK")
    /\ StrongSide = BLACK
    /\ pos.pl.stm = WHITE
    /\ count(pos.m, BLACK, QUEEN) = 2
    /\ ~(dark_queens(pos, BLACK) /\ light_queens(pos, BLACK))
    /\ CoversLight /\ CoversDark
    /\ LastEval.v = -MaterialValue
    /\ LastEval.v # 0

-----------------------------------------------------------------------------
(* Overwhelming material against the bare king *)

\* Three or more queens of the strong side, all on squares of one color.
ThreeQueensOneColor ==
    /\ count(pos.m, StrongSide, QUEEN) >= 3
    /\ ~(dark_queens(pos, StrongSide) /\ light_queens(pos, StrongSide))

OnlyQueens ==
    /\ count(pos.m, StrongSide, ROOK) = 0
    /\ count(pos.m, StrongSide, KNIGHT) = 0
    /\ count(pos.m, StrongSide, BISHOP) = 0

-----------------------------------------------------------------------------
(* The single-enemy-piece predicates *)

\* The five variants and the piece type each is about.
Variants ==
    { <<"KXKP", PAWN>>, <<"KXKQ", QUEEN>>, <<"KXKB", BISHOP>>,
      <<"KXKN", KNIGHT>>, <<"KXKR", ROOK>> }

MaterialLead(m, us) == non_pawn_material(m, us) - non_pawn_material(m, Opp(us))

\* C14 as stated: a single-enemy-piece predicate holds for a side only when the
\* opponent has exactly one piece of the variant's type, the side has no piece of
\* that type, and its non-pawn material lead is at least BishopValueEg + QueenValueEg.
C14_NoPieceOfSameType ==
    ret.valid =>
        \A v \in Variants, us \in Color :
            Holds(v[1], pos.m, us) =>
                /\ count(pos.m, Opp(us), v[2]) = 1
                /\ count(pos.m, us, v[2]) = 0
                /\ MaterialLead(pos.m, us) >= BishopValueEg + QueenValueEg

\* C14 amended: a single-enemy-piece predicate holds for a side only when the
\* opponent has exactly one piece of the variant's type, the side has no pawn, and
\* its non-pawn material lead is at least BishopValueEg + QueenValueEg.
C14_NoPawnOfOwn ==
    ret.valid =>
        \A v \in Variants, us \in Color :
            Holds(v[1], pos.m, us) =>
                /\ count(pos.m, Opp(us), v[2]) = 1
                /\ count(pos.m, us, PAWN) = 0
                /\ MaterialLead(pos.m, us) >= BishopValueEg + QueenValueEg

\* C14 witness: probe attached the queen variant's evaluator for a side that has a
\* queen of its own.
C14_Witness_OwnQueen ==
    /\ ret.valid
    /\ ret.entry.evaluationFunction[1] = "KXKQ"
    /\ count(pos.m, ret.entry.evaluationFunction[2], QUEEN) >= 1
    /\ count(pos.m, Opp(ret.entry.evaluationFunction[2]), QUEEN) = 1

-----------------------------------------------------------------------------
(* The sign of the score *)

\* The position with the other side to move.
OtherToMove(p) == [p EXCEPT !.pl.stm = Opp(@)]

\* The weak side is to move and has no legal move, before or after the move passes.
WeakSideStalemated(p, strongSide) ==
    no_legal_moves(p) /\ ~more_than_one_piece(p.m, Opp(strongSide))

\* C15: for every evaluator and every placement in which the weak side is not
\* stalemated, the result with the weak side to move is the exact negation of the
\* result with the strong side to move. Stated for the evaluations that read no
\* table out of its bounds.
C15_WeakSideToMoveNegates ==
    (Evaluated /\ LastEval.fn # NullFn /\ ~LastEval.oob
        /\ ~WeakSideStalemated(pos, StrongSide)) =>
        CallEvaluation(LastEval.fn, OtherToMove(pos), 0) = -LastEval.v

-----------------------------------------------------------------------------
(* One kind of result per Entry *)

NoScaling(e) == \A c \in Color : e.scalingFunction[c] = NullFn

\* C16: an Entry that probe computes carries at most one kind of result: with
\* evaluationFunction set, both scalingFunction slots are null and value is 0; with
\* a scalingFunction set, it is set only in the slot of its strong side,
\* evaluationFunction is null and value is 0; value is not 0 only when no evaluator
\* of either kind is attached.
C16_OneKindOfResult ==
    (ret.valid /\ ~ret.hit) =>
        LET e == ret.entry
        IN  /\ e.evaluationFunction # NullFn => (NoScaling(e) /\ e.value = 0)
            /\ \A c \in Color :
                  e.scalingFunction[c] # NullFn =>
                      /\ e.scalingFunction[c][2] = c
                      /\ e.scalingFunction[Opp(c)] = NullFn
                      /\ e.evaluationFunction = NullFn
                      /\ e.value = 0
            /\ e.value # 0 => (e.evaluationFunction = NullFn /\ NoScaling(e))

\* C16 witness: probe computed an Entry with an evaluator for material whose
\* imbalance is not 0, and left value at 0.
C16_Witness_EvaluatorHidesImbalance ==
    /\ ret.valid /\ ~ret.hit
    /\ ret.entry.evaluationFunction # NullFn
    /\ NoScaling(ret.entry)
    /\ ImbalanceValue(pos.m) # 0
    /\ ret.entry.value = 0

-----------------------------------------------------------------------------
(* One classified side per family *)

HoldsForBoth(f, m) == Holds(f, m, WHITE) /\ Holds(f, m, BLACK)

FamilySet == { Families[i] : i \in 1..Len(Families) }

\* C17: for every material composition, each of the seven classifier predicates
\* holds for at most one color; the generic evaluator probe attaches is bound to
\* the only color for which its family's predicate holds, whichever color is tried
\* first.
C17_AtMostOneClassifiedSide ==
    ret.valid =>
        /\ \A f \in FamilySet : ~HoldsForBoth(f, pos.m)
        /\ LET fn == ret.entry.evaluationFunction
           IN  (fn # NullFn /\ fn[3] = 0) =>
                   /\ Holds(fn[1], pos.m, fn[2])
                   /\ ~Holds(fn[1], pos.m, Opp(fn[2]))

\* C17 witness: the predicate of the attached family failed for WHITE, tried first,
\* and held for BLACK.
C17_Witness_SecondColorHeld ==
    /\ ret.valid /\ ~ret.hit
    /\ ret.entry.evaluationFunction[3] = 0
    /\ ret.entry.evaluationFunction[1] \in FamilySet
    /\ ret.entry.evaluationFunction[2] = BLACK
    /\ Len(ret.tried) >= 2
    /\ ret.tried[Len(ret.tried) - 1] = <<ret.entry.evaluationFunction[1], WHITE>>

-----------------------------------------------------------------------------
(* Squares of pieces that are not on the board *)

\* The <<side, piece type>> pairs whose square<PT>(side) enters the score the
\* evaluator behind fn computes for p: Endgame<KXKP>..<KXKR> index
\* PushToQueenCorners by the color of queenSq in the first sum and use knightSq,
\* bishopSq and queenSq under count<PT>(strongSide); <KXKP> and <KXKQ> use
\* square<QUEEN>(weakSide) under count<QUEEN>(strongSide); <KBQK> and <KNQK> test
\* the color of queenSq first, <KNQK> the attacks from knightSq.
SquaresUsed(fn, p) ==
    LET E == fn[1]
        strongSide == IF fn[3] = 0 THEN generic[E][fn[2]] ELSE fn[2]
        weakSide == Opp(strongSide)
        counted == { <<strongSide, pt>> : pt \in { t \in {KNIGHT, BISHOP, QUEEN} :
                                                     count(p.m, strongSide, t) # 0 } }
    IN  CASE E \in {"KXKP", "KXKQ"} ->
                { <<strongSide, QUEEN>> } \cup counted
                \cup (IF count(p.m, strongSide, QUEEN) # 0
                      THEN { <<weakSide, QUEEN>> } ELSE {})
          [] E \in {"KXKB", "KXKN", "KXKR"} -> { <<strongSide, QUEEN>> } \cup counted
          [] E = "KBQK" ->
                { <<strongSide, QUEEN>> }
                \cup { <<strongSide, pt>> : pt \in { t \in {BISHOP, QUEEN} :
                                                       count(p.m, strongSide, t) # 0 } }
          [] E = "KNQK" ->
                { <<strongSide, QUEEN>>, <<strongSide, KNIGHT>> }
          [] OTHER -> {}

\* C18: for every material composition for which probe attaches an evaluator, each
\* piece square the evaluator uses in its score (strong-side queen, bishop or
\* knight; weak-side queen) is that of a piece type of which the side has at least
\* one piece, and no table is read at the square of a piece that is not on the board.
C18_UsedSquaresOnBoard ==
    (Evaluated /\ LastEval.fn # NullFn) =>
        /\ \A u \in SquaresUsed(LastEval.fn, pos) : count(pos.m, u[1], u[2]) >= 1
        /\ ~LastEval.oob

=============================================================================
